---- MODULE Spec2Model ----
(***************************************************************************)
(* Model of the GitHub Projects V2 client of the dashboard:                *)
(*   src/lib/error-handling.ts  (EnhancedError, classifyGitHubError,       *)
(*                               retryOperation, handleRateLimit)          *)
(*   src/lib/github-client.ts   (graphqlWithRetry, fetchProject,           *)
(*                               fetchMultipleProjects)                    *)
(* One call of fetchMultipleProjects(configs) is modelled: every           *)
(* descriptor has its own fetchProject coroutine, the coroutines           *)
(* interleave at their suspension points (the upstream call, the           *)
(* rate-limit wait, the backoff delay), and Promise.allSettled collects    *)
(* the settled promises.                                                   *)
(***************************************************************************)
EXTENDS Integers, Sequences, FiniteSets, TLC

VARIABLES NODE_ENV, upstream, configs, fetch, settleOrder, results,
          pure, api, hook, sse, page

vars == <<NODE_ENV, upstream, configs, fetch, settleOrder, results,
          pure, api, hook, sse, page>>

\* the state outside the GitHub client: the pure function under evaluation,
\* the GET /projects request, the POST /webhook request, the /events registry,
\* the dashboard page
others == <<pure, api, hook, sse, page>>

\* a part of the system that takes no part in the run
Idle == [phase |-> "idle"]

(***************************************************************************)
(* Bounds and program constants                                            *)
(***************************************************************************)
\* largest descriptor list handed to fetchMultipleProjects
MaxProjects == 2

\* graphqlWithRetry passes maxRetries = 3 to retryOperation
MaxRetries == 3

\* the descriptors (ProjectConfig.name); descriptor k asks for project k
AllConfigs == <<"Project A", "Project B", "Project C", "Project D">>

\* the two entries of fetchProject's `queries` array, in order
queries == <<"organization", "user">>

(***************************************************************************)
(* Values                                                                  *)
(***************************************************************************)
NoError == [kind |-> "none"]

\* rejection values of the upstream graphql call; status 0 stands for an
\* error object without a status property
RateLimit403 == [kind |-> "raw", status |-> 403, message |-> "API rate limit exceeded"]
Unauthorized401 == [kind |-> "raw", status |-> 401, message |-> "Bad credentials"]

RawErrors ==
  { RateLimit403, Unauthorized401,
    [kind |-> "raw", status |-> 404, message |-> "Not found"],
    [kind |-> "raw", status |-> 0,   message |-> "Organization not found"],
    [kind |-> "raw", status |-> 403, message |-> "Forbidden"],
    [kind |-> "raw", status |-> 0,   message |-> "network connection lost"],
    [kind |-> "raw", status |-> 502, message |-> "Bad gateway"],
    [kind |-> "raw", status |-> 400, message |-> "Bad request"] }

\* a rejection with the value null (a non-Error rejection value)
NullRejection == [kind |-> "null"]

Rejections == RawErrors \cup {NullRejection}

\* String.prototype.includes for the messages above and the needles the code
\* looks for
Needles(message) ==
  CASE message = "API rate limit exceeded" -> {"rate limit", "API rate limit"}
    [] message = "Organization not found"  -> {"not found"}
    [] message = "network connection lost" -> {"network", "connection"}
    [] message = "Project not found" -> {"not found"}
    [] message = "Project not found in organization or user account" -> {"not found"}
    [] message = "Request timeout" -> {"timeout"}
    [] OTHER -> {}

includes(message, needle) == needle \in Needles(message)

EnhancedError(message, code, status, retryable, context) ==
  [kind |-> "EnhancedError", message |-> message, code |-> code,
   status |-> status, retryable |-> retryable, context |-> context]

NoContext == [operation |-> "", projectName |-> ""]

createErrorContext(operation, projectName) ==
  [operation |-> operation, projectName |-> projectName]

\* the TypeError thrown when a property of null / undefined is read
TypeError(message) == [kind |-> "TypeError", message |-> message]

isEnhanced(e) == e.kind = "EnhancedError"

\* error.message || fallback, error.status || 500
messageOr(e, fallback) ==
  IF e.kind \in {"raw", "TypeError", "EnhancedError"} THEN e.message ELSE fallback
statusOr500(e) ==
  IF e.kind \in {"raw", "EnhancedError"} /\ e.status # 0 THEN e.status ELSE 500

\* variant: a not-found response is classified as final (retryable = false)
classifyGitHubError_notFoundFinal(error) ==
  LET message == messageOr(error, "Unknown GitHub API error")
      status  == statusOr500(error)
  IN  IF status = 403 /\ includes(message, "rate limit")
        THEN EnhancedError("Rate limit exceeded", "RATE_LIMIT", 403, TRUE, NoContext)
      ELSE IF status = 401 \/ includes(message, "authentication") \/ includes(message, "token")
        THEN EnhancedError("Authentication failed", "AUTH_ERROR", 401, FALSE, NoContext)
      ELSE IF status = 404 \/ includes(message, "not found")
        THEN EnhancedError("Project not found", "NOT_FOUND", 404, FALSE, NoContext)
      ELSE IF status = 403 /\ ~includes(message, "rate limit")
        THEN EnhancedError("Access denied", "PROJECT_ACCESS_DENIED", 403, FALSE, NoContext)
      ELSE IF includes(message, "network") \/ includes(message, "connection")
              \/ includes(message, "timeout")
        THEN EnhancedError("Network error", "NETWORK_ERROR", 503, TRUE, NoContext)
      ELSE EnhancedError(message, "GENERIC_ERROR", status, status >= 500, NoContext)

classifyGitHubError(error) ==
  LET message == messageOr(error, "Unknown GitHub API error")
      status  == statusOr500(error)
  IN  IF status = 403 /\ includes(message, "rate limit")
        THEN EnhancedError("Rate limit exceeded", "RATE_LIMIT", 403, TRUE, NoContext)
      ELSE IF status = 401 \/ includes(message, "authentication") \/ includes(message, "token")
        THEN EnhancedError("Authentication failed", "AUTH_ERROR", 401, FALSE, NoContext)
      ELSE IF status = 404 \/ includes(message, "not found")
        THEN EnhancedError("Project not found", "NOT_FOUND", 404, TRUE, NoContext)
      ELSE IF status = 403 /\ ~includes(message, "rate limit")
        THEN EnhancedError("Access denied", "PROJECT_ACCESS_DENIED", 403, FALSE, NoContext)
      ELSE IF includes(message, "network") \/ includes(message, "connection")
              \/ includes(message, "timeout")
        THEN EnhancedError("Network error", "NETWORK_ERROR", 503, TRUE, NoContext)
      ELSE EnhancedError(message, "GENERIC_ERROR", status, status >= 500, NoContext)

isRateLimitError(error) ==
  /\ error.kind = "raw"
  /\ error.status = 403
  /\ (includes(error.message, "rate limit") \/ includes(error.message, "API rate limit"))


(***************************************************************************)
(* Upstream responses                                                      *)
(***************************************************************************)
\* a resolved call: the data carries the project that was asked for (the
\* descriptor's index), project 0 when the scope holds no such project
Data(project) == [kind |-> "data", project |-> project]

\* a call resolved with undefined (what a bare jest.fn() answers)
UndefinedData == [kind |-> "undefined"]

NoResponse == [kind |-> "none"]

\* the ways a call can resolve: with the project asked for, with no project,
\* with undefined
ResolutionKinds == {"project", "empty", "undefined"}

Resolution(kind, i) ==
  CASE kind = "project" -> Data(i)
    [] kind = "empty" -> Data(0)
    [] kind = "undefined" -> UndefinedData

(***************************************************************************)
(* The state of one fetchProject coroutine started by the map callback of  *)
(* fetchMultipleProjects.                                                  *)
(*   pc           "call": about to issue the graphql call of this attempt  *)
(*                "rate_limit_wait": inside await handleRateLimit(error)   *)
(*                "backoff": inside the backoff delay of retryOperation    *)
(*                "settled": the callback's promise has settled            *)
(*   scope        index into `queries`                                     *)
(*   attempt      retryOperation's loop variable                           *)
(*   caught       the error held by the catch block of graphqlWithRetry    *)
(*   lastError    retryOperation's lastError                               *)
(*   fpLastError  fetchProject's lastError                                 *)
(*   promise      fetchPromises[i]                                         *)
(* History variables, per scope: calls (graphql calls issued), backoffs    *)
(* (backoff delays completed), lastResponse (latest upstream response),    *)
(* scopeResult (what graphqlWithRetry returned or threw); and fetched,     *)
(* what fetchProject returned or threw.                                    *)
(***************************************************************************)
Pending == [status |-> "pending"]
Fulfilled(value) == [status |-> "fulfilled", value |-> value]
Rejected(reason) == [status |-> "rejected", reason |-> reason]

NewFetch ==
  [pc |-> "call", scope |-> 1, attempt |-> 0, caught |-> NoError,
   lastError |-> NoError, fpLastError |-> NoError, promise |-> Pending,
   calls |-> <<0, 0>>, backoffs |-> <<0, 0>>,
   lastResponse |-> <<NoResponse, NoResponse>>,
   scopeResult |-> <<NoResponse, NoResponse>>, fetched |-> NoResponse]

(***************************************************************************)
(* fetchMultipleProjects: the map callback                                 *)
(***************************************************************************)
Success(data, projectName) ==
  [success |-> TRUE, data |-> data, projectName |-> projectName]
Failure(error, projectName) ==
  [success |-> FALSE, error |-> error, projectName |-> projectName]

\* variant: the catch block lets the error escape
callback_catch_rethrow(error, config) == Rejected(error)

\* the catch block of the callback (lines 317-345)
callback_catch(error, config) ==
  IF error.kind = "null"
    THEN Rejected(TypeError("Cannot read properties of null (reading 'message')"))
  ELSE IF isEnhanced(error)
    THEN Fulfilled(Failure(error, config))
  ELSE IF error.kind = "GitHubApiError"
    THEN Fulfilled(Failure(classifyGitHubError(error), config))
  ELSE Fulfilled(Failure(
         EnhancedError(messageOr(error, "Unknown error"), "GENERIC_ERROR",
                       statusOr500(error), TRUE,
                       createErrorContext("fetch_project_generic_error", config)),
         config))

\* fetchProject returned `project` (lines 311-316)
callback_return(st, project, config) ==
  [st EXCEPT !.pc = "settled", !.fetched = project,
             !.promise = Fulfilled(Success(project, config))]

\* fetchProject threw `error`
callback_throw(st, error, config) ==
  [st EXCEPT !.pc = "settled", !.fetched = error,
             !.promise = callback_catch(error, config)]

(***************************************************************************)
(* fetchProject                                                            *)
(***************************************************************************)
\* variant: the final error is built with the default retryable = true
NotFoundError_retryable(config) ==
  EnhancedError("Project not found in organization or user account", "NOT_FOUND",
                404, TRUE, createErrorContext("fetch_project_not_found", config))

\* lines 291-300
NotFoundError(config) ==
  EnhancedError("Project not found in organization or user account", "NOT_FOUND",
                404, FALSE, createErrorContext("fetch_project_not_found", config))

\* the loop goes on to the next entry of `queries`, or falls out of it
nextQuery(st, config) ==
  IF st.scope < Len(queries)
    THEN [st EXCEPT !.scope = st.scope + 1, !.attempt = 0, !.pc = "call",
                    !.caught = NoError, !.lastError = NoError]
    ELSE callback_throw(st, NotFoundError(config), config)

\* variant: the catch block never rethrows, every failure falls through to
\* the next scope
fetchProject_catch_fallthrough(st, error, config) ==
  nextQuery([st EXCEPT !.fpLastError = error], config)

\* the catch block of the loop body (lines 278-288)
fetchProject_catch(st, error, config) ==
  LET st1 == [st EXCEPT !.fpLastError = error]
  IN  IF isEnhanced(error) /\ ~error.retryable
        THEN callback_throw(st1, error, config)
        ELSE nextQuery(st1, config)

\* graphqlWithRetry resolved with `data` (lines 273-277)
fetchProject_data(st, data, config) ==
  LET st1 == [st EXCEPT !.scopeResult[st.scope] = data]
  IN  IF data.kind = "undefined"
        THEN fetchProject_catch(st1,
               TypeError("Cannot read properties of undefined"), config)
      ELSE IF data.project # 0
        THEN callback_return(st1, data, config)
        ELSE nextQuery(st1, config)

\* graphqlWithRetry rejected with `error`
fetchProject_error(st, error, config) ==
  fetchProject_catch([st EXCEPT !.scopeResult[st.scope] = error], error, config)

(***************************************************************************)
(* retryOperation                                                          *)
(***************************************************************************)
\* variant: the loop gives up one attempt later
retryOperation_catch_oneMore(st, error, config) ==
  IF NODE_ENV = "test"
    THEN fetchProject_error(st, error, config)
    ELSE LET st1 == [st EXCEPT !.lastError = error, !.caught = NoError]
         IN  IF st.attempt = MaxRetries + 1
               THEN fetchProject_error(st1, st1.lastError, config)
             ELSE IF isEnhanced(error) /\ ~error.retryable
               THEN fetchProject_error(st1, error, config)
             ELSE [st1 EXCEPT !.pc = "backoff"]

\* variant: the retryable flag is not consulted
retryOperation_catch_ignoreFlag(st, error, config) ==
  IF NODE_ENV = "test"
    THEN fetchProject_error(st, error, config)
    ELSE LET st1 == [st EXCEPT !.lastError = error, !.caught = NoError]
         IN  IF st.attempt = MaxRetries
               THEN fetchProject_error(st1, st1.lastError, config)
             ELSE [st1 EXCEPT !.pc = "backoff"]

\* the operation threw `error` (lines 129-131 and 138-160)
retryOperation_catch(st, error, config) ==
  IF NODE_ENV = "test"
    THEN fetchProject_error(st, error, config)
    ELSE LET st1 == [st EXCEPT !.lastError = error, !.caught = NoError]
         IN  IF st.attempt = MaxRetries
               THEN fetchProject_error(st1, st1.lastError, config)
             ELSE IF isEnhanced(error) /\ ~error.retryable
               THEN fetchProject_error(st1, error, config)
             ELSE [st1 EXCEPT !.pc = "backoff"]

(***************************************************************************)
(* graphqlWithRetry: the operation handed to retryOperation                *)
(***************************************************************************)
scopeContext(st, config) ==
  createErrorContext(IF st.scope = 1 THEN "fetch_project_organization"
                                     ELSE "fetch_project_user", config)

\* the catch block of the operation (lines 184-197)
operation_catch(st, error, config) ==
  IF error.kind = "null"
    THEN retryOperation_catch(st,
           TypeError("Cannot read properties of null (reading 'status')"), config)
  ELSE IF isRateLimitError(error)
    THEN [st EXCEPT !.pc = "rate_limit_wait", !.caught = error]
  ELSE retryOperation_catch(st,
         [classifyGitHubError(error) EXCEPT !.context = scopeContext(st, config)],
         config)

\* issuing the call of the current attempt
issueCall(st, response) ==
  [st EXCEPT !.calls[st.scope] = @ + 1, !.lastResponse[st.scope] = response]


(***************************************************************************)
(* fetchMultipleProjects: Promise.allSettled and the final map             *)
(***************************************************************************)
\* lines 350-370, one element
settledOutcome(promise, config) ==
  IF promise.status = "fulfilled"
    THEN promise.value
    ELSE Failure(
           EnhancedError(messageOr(promise.reason, "Promise rejected"),
                         "GENERIC_ERROR", 500, TRUE,
                         createErrorContext("fetch_project_promise_rejected", config)),
           config)

\* variant: Promise.all over the bare fetches, which rejects with the first
\* failure
collectResults_failFast(fs, cfgs, order) ==
  LET failed == {k \in 1..Len(order) : fs[order[k]].fetched.kind # "data"}
  IN  IF failed = {}
        THEN Fulfilled([index \in 1..Len(cfgs) |->
                          Success(fs[index].fetched, cfgs[index])])
        ELSE Rejected(fs[order[CHOOSE k \in failed : \A m \in failed : k <= m]].fetched)

\* variant: the outcomes are gathered in the order the fetches settled
collectResults_settleOrder(fs, cfgs, order) ==
  Fulfilled([k \in 1..Len(order) |->
               settledOutcome(fs[order[k]].promise, cfgs[order[k]])])

\* lines 348-370: the array the returned promise fulfils with
collectResults(fs, cfgs, order) ==
  Fulfilled([index \in 1..Len(cfgs) |-> settledOutcome(fs[index].promise, cfgs[index])])

(***************************************************************************)
(* State machine                                                           *)
(***************************************************************************)
Indices == 1..Len(configs)

InitWith(lengths, envs, upstreams) ==
  /\ NODE_ENV \in envs
  /\ upstream \in upstreams
  /\ \E n \in lengths : configs = SubSeq(AllConfigs, 1, n)
  /\ fetch = [i \in 1..Len(configs) |-> NewFetch]
  /\ settleOrder = <<>>
  /\ results = Pending
  /\ pure = Idle /\ api = Idle /\ hook = Idle /\ sse = Idle /\ page = Idle

\* a step of coroutine i that takes its state to st
Advance(i, st) ==
  /\ fetch' = [fetch EXCEPT ![i] = st]
  /\ settleOrder' = IF st.pc = "settled" THEN Append(settleOrder, i) ELSE settleOrder
  /\ UNCHANGED <<NODE_ENV, upstream, configs, results, others>>

\* the upstream call of the current attempt resolves
QueryResolves(i) ==
  /\ fetch[i].pc = "call"
  /\ \E kind \in upstream.resolves :
       LET data == Resolution(kind, i)
       IN  Advance(i, fetchProject_data(issueCall(fetch[i], data), data, configs[i]))

\* the upstream call of the current attempt rejects (or throws synchronously)
QueryRejects(i) ==
  /\ fetch[i].pc = "call"
  /\ \E error \in upstream.rejects :
       Advance(i, operation_catch(issueCall(fetch[i], error), error, configs[i]))

\* handleRateLimit returns and the operation rethrows the raw error (line 188)
RateLimitWaitEnds(i) ==
  /\ fetch[i].pc = "rate_limit_wait"
  /\ Advance(i, retryOperation_catch(fetch[i], fetch[i].caught, configs[i]))

\* the backoff delay of retryOperation elapses; the loop starts the next attempt
BackoffEnds(i) ==
  /\ fetch[i].pc = "backoff"
  /\ Advance(i, [fetch[i] EXCEPT !.pc = "call", !.attempt = @ + 1,
                                 !.backoffs[fetch[i].scope] = @ + 1])

\* every promise has settled: Promise.allSettled resolves and the map runs
AllSettled ==
  /\ results = Pending
  /\ \A i \in Indices : fetch[i].promise.status # "pending"
  /\ results' = collectResults(fetch, configs, settleOrder)
  /\ UNCHANGED <<NODE_ENV, upstream, configs, fetch, settleOrder, others>>

Next ==
  \/ \E i \in Indices : QueryResolves(i)
  \/ \E i \in Indices : QueryRejects(i)
  \/ \E i \in Indices : RateLimitWaitEnds(i)
  \/ \E i \in Indices : BackoffEnds(i)
  \/ AllSettled

\* the upstream behaviours of the fan-out runs
MultiUpstreams ==
  { [resolves |-> {"project", "empty"}, rejects |-> {RateLimit403, Unauthorized401}],
    [resolves |-> {"project", "undefined"}, rejects |-> {NullRejection}] }

\* one descriptor: the behaviours of a single fetchProject
Init ==
  InitWith({1}, {"test", "production"},
           {[resolves |-> ResolutionKinds, rejects |-> Rejections]})

Spec == Init /\ [][Next]_vars

\* the fan-out over up to MaxProjects descriptors
InitMulti ==
  InitWith(0..MaxProjects, {"test", "production"}, MultiUpstreams)

SpecMulti == InitMulti /\ [][Next]_vars


(***************************************************************************)
(* Vocabulary of the properties                                            *)
(***************************************************************************)
Scopes == 1..Len(queries)

isError(x) == x.kind \in {"raw", "TypeError", "EnhancedError", "null"}

isProject(x) == x.kind = "data" /\ x.project # 0

\* the scope query returned, but without a project
noProject(x) == x.kind = "undefined" \/ (x.kind = "data" /\ x.project = 0)

\* an error that fetchProject rethrows instead of trying the next scope
isNonRetryable(x) == isEnhanced(x) /\ ~x.retryable

\* the upstream response makes the operation throw a non-retryable error
respondsNonRetryable(r) ==
  r.kind = "raw" /\ ~isRateLimitError(r) /\ ~classifyGitHubError(r).retryable

hasCode(x, code) == isEnhanced(x) /\ x.code = code

Returned == results.status = "fulfilled"

\* C1: when the organization-scope query fails with a rate-limit error,
\* fetchProject never issues the user-scope query for that descriptor
C1_NoUserQueryAfterRateLimit ==
  \A i \in Indices :
    isRateLimitError(fetch[i].scopeResult[1]) => fetch[i].calls[2] = 0

\* C2: when the organization-scope query fails with a rate-limit error, the
\* error fetchProject raises, and the error of the failure outcome, is
\* classified RATE_LIMIT with retryable = true
C2_RateLimitSurfaced ==
  \A i \in Indices :
    (isRateLimitError(fetch[i].scopeResult[1]) /\ isError(fetch[i].fetched)) =>
       /\ hasCode(fetch[i].fetched, "RATE_LIMIT")
       /\ fetch[i].fetched.retryable
       /\ Returned => /\ ~results.value[i].success
                      /\ hasCode(results.value[i].error, "RATE_LIMIT")
                      /\ results.value[i].error.retryable

\* C3: every outcome is what the descriptor's own fetch produced: a fetch that
\* failed gives success:false with its own error, a fetch that succeeded gives
\* success:true with its own project, whatever the other fetches did and in
\* whatever order they were interleaved
C3_ErrorIsolation ==
  Returned =>
    \A i \in Indices :
      /\ isError(fetch[i].fetched) =>
           results.value[i] = Failure(fetch[i].fetched, configs[i])
      /\ isProject(fetch[i].fetched) =>
           /\ results.value[i] = Success(fetch[i].fetched, configs[i])
           /\ results.value[i].data.project = i

\* a fetch all of whose upstream calls were rate limited
alwaysRateLimited(st) ==
  /\ st.pc = "settled"
  /\ \A s \in Scopes : isRateLimitError(st.scopeResult[s])

C3_Witness ==
  /\ Returned
  /\ Len(configs) = 2
  /\ NODE_ENV = "production"
  /\ alwaysRateLimited(fetch[2])
  /\ fetch[2].calls = <<MaxRetries + 1, MaxRetries + 1>>
  /\ isProject(fetch[1].fetched)
  /\ settleOrder = <<2, 1>>

\* the two variants of ProjectFetchOutcome
isFetchOutcome(o) ==
  \/ /\ DOMAIN o = {"success", "data", "projectName"}
     /\ o.success = TRUE
  \/ /\ DOMAIN o = {"success", "error", "projectName"}
     /\ o.success = FALSE
     /\ isEnhanced(o.error)

\* C4: the promise fetchMultipleProjects returns never rejects, and every
\* element it fulfils with is one of the two outcome variants
C4_NeverRejects ==
  /\ results.status # "rejected"
  /\ Returned => \A i \in DOMAIN results.value : isFetchOutcome(results.value[i])

C4_Witness ==
  /\ Returned
  /\ Len(configs) = 2
  /\ upstream.rejects = {NullRejection}
  /\ \A i \in Indices : /\ fetch[i].lastResponse = <<NullRejection, NullRejection>>
                        /\ ~results.value[i].success

\* C5: exactly configs.length outcomes, and outcome i carries the name of
\* descriptor i, in whatever order the fetches settled
C5_LengthAndOrder ==
  Returned =>
    /\ DOMAIN results.value = 1..Len(configs)
    /\ \A i \in Indices : results.value[i].projectName = configs[i]

C5_Witness ==
  /\ Returned
  /\ Len(configs) = 2
  /\ settleOrder = <<2, 1>>
  /\ results.value[1].projectName = "Project A"
  /\ results.value[2].projectName = "Project B"

\* the scope query ended in 'not found': no project in the data, or a
\* NOT_FOUND-classified error
endedNotFound(x) == noProject(x) \/ hasCode(x, "NOT_FOUND")

\* C6: when both scope queries end in 'not found', the error fetchProject
\* raises is classified NOT_FOUND with retryable = false
C6_BothNotFound ==
  \A i \in Indices :
    (\A s \in Scopes : endedNotFound(fetch[i].scopeResult[s])) =>
       /\ hasCode(fetch[i].fetched, "NOT_FOUND")
       /\ ~fetch[i].fetched.retryable

C6_Witness ==
  /\ NODE_ENV = "production"
  /\ \A s \in Scopes : hasCode(fetch[1].scopeResult[s], "NOT_FOUND")
  /\ fetch[1].calls = <<MaxRetries + 1, MaxRetries + 1>>
  /\ hasCode(fetch[1].fetched, "NOT_FOUND")

\* C7: the organization-scope query comes first; the user-scope query is
\* issued only after the organization-scope query returned no project or
\* failed with an error that is not non-retryable; after a project or a
\* non-retryable error in the organization scope it is never issued
C7_ScopeOrder ==
  \A i \in Indices :
    LET org == fetch[i].scopeResult[1]
    IN  /\ fetch[i].calls[2] > 0 =>
             /\ fetch[i].calls[1] > 0
             /\ noProject(org) \/ (isError(org) /\ ~isNonRetryable(org))
        /\ (isProject(org) \/ isNonRetryable(org)) =>
             /\ fetch[i].calls[2] = 0
             /\ fetch[i].pc = "settled"

C7_Witness ==
  /\ hasCode(fetch[1].scopeResult[1], "AUTH_ERROR")
  /\ fetch[1].pc = "settled"
  /\ fetch[1].calls[2] = 0

\* C8 as stated: each scope query is attempted at most 3 times in total
C8_AtMostThreeAttempts ==
  \A i \in Indices : \A s \in Scopes : fetch[i].calls[s] <= 3

\* C8: each scope query is attempted at most MaxRetries + 1 = 4 times in
\* total: the first call and at most 3 retries
C8_AtMostFourAttempts ==
  \A i \in Indices : \A s \in Scopes :
    /\ fetch[i].calls[s] <= MaxRetries + 1
    /\ fetch[i].backoffs[s] <= MaxRetries

C8_Witness ==
  /\ fetch[1].calls[1] = MaxRetries + 1
  /\ fetch[1].backoffs[1] = MaxRetries
  /\ hasCode(fetch[1].scopeResult[1], "NETWORK_ERROR")

\* C9: once a scope query has received a rate-limit response, the retry
\* policy makes no further attempt of that query
C9_RateLimitNotRetried ==
  [][ \A i \in Indices : \A s \in Scopes :
        isRateLimitError(fetch[i].lastResponse[s]) =>
          fetch'[i].calls[s] = fetch[i].calls[s] ]_vars

\* C10: when an attempt fails with a non-retryable error, that error, with
\* the scope's context, is what the scope query raises; no backoff delay and
\* no further attempt follows it; a non-retryable error on the first attempt
\* is raised after exactly one attempt
C10_NonRetryableSkipsRetry ==
  /\ [](\A i \in Indices : \A s \in Scopes :
          respondsNonRetryable(fetch[i].lastResponse[s]) =>
            /\ isNonRetryable(fetch[i].scopeResult[s])
            /\ [fetch[i].scopeResult[s] EXCEPT !.context = NoContext]
                 = classifyGitHubError(fetch[i].lastResponse[s])
            /\ fetch[i].fetched = fetch[i].scopeResult[s]
            /\ fetch[i].calls[s] = fetch[i].backoffs[s] + 1
            /\ fetch[i].backoffs[s] = 0 => fetch[i].calls[s] = 1)
  /\ [][ \A i \in Indices : \A s \in Scopes :
           respondsNonRetryable(fetch[i].lastResponse[s]) =>
             /\ fetch'[i].calls[s] = fetch[i].calls[s]
             /\ fetch'[i].backoffs[s] = fetch[i].backoffs[s] ]_vars

C10_Witness ==
  /\ NODE_ENV = "production"
  /\ fetch[1].lastResponse[1] = Unauthorized401
  /\ fetch[1].calls = <<1, 0>>
  /\ fetch[1].backoffs = <<0, 0>>
  /\ hasCode(fetch[1].fetched, "AUTH_ERROR")


(***************************************************************************)
(* classifyGitHubError as a function: it is applied to an error drawn      *)
(* from the rejection values and from the EnhancedError values of the      *)
(* taxonomy.                                                               *)
(***************************************************************************)
\* the EnhancedError values the code constructs (without their context):
\* the five fixed results of classifyGitHubError, two of its generic results,
\* the final error of fetchProject, the error of fetchWithTimeout and the
\* error of handleWebhookError
ConstructedErrors ==
  { EnhancedError("Rate limit exceeded", "RATE_LIMIT", 403, TRUE, NoContext),
    EnhancedError("Authentication failed", "AUTH_ERROR", 401, FALSE, NoContext),
    EnhancedError("Project not found", "NOT_FOUND", 404, TRUE, NoContext),
    EnhancedError("Access denied", "PROJECT_ACCESS_DENIED", 403, FALSE, NoContext),
    EnhancedError("Network error", "NETWORK_ERROR", 503, TRUE, NoContext),
    EnhancedError("Bad gateway", "GENERIC_ERROR", 502, TRUE, NoContext),
    EnhancedError("Bad request", "GENERIC_ERROR", 400, FALSE, NoContext),
    EnhancedError("Project not found in organization or user account",
                  "NOT_FOUND", 404, FALSE, NoContext),
    EnhancedError("Request timeout", "TIMEOUT", 408, TRUE, NoContext),
    EnhancedError("Webhook processing failed", "WEBHOOK_ERROR", 500, TRUE, NoContext) }

\* the contexts the code attaches
ErrorContexts ==
  {NoContext} \cup
  { createErrorContext(op, AllConfigs[k]) :
      op \in {"fetch_project_organization", "fetch_project_user",
              "fetch_project_not_found"},
      k \in 1..3 }

EnhancedErrors ==
  { [e EXCEPT !.context = c] : e \in ConstructedErrors, c \in ErrorContexts }

InitClassify ==
  /\ pure \in { [phase |-> "classifyGitHubError", input |-> e, output |-> NoError] :
                  e \in RawErrors \cup EnhancedErrors }
  /\ NODE_ENV = "production"
  /\ upstream = [resolves |-> {}, rejects |-> {}]
  /\ configs = <<>> /\ fetch = <<>> /\ settleOrder = <<>> /\ results = Pending
  /\ api = Idle /\ hook = Idle /\ sse = Idle /\ page = Idle

\* the call classifyGitHubError(input)
Classify ==
  /\ pure.phase = "classifyGitHubError"
  /\ pure.output = NoError
  /\ pure' = [pure EXCEPT !.output = classifyGitHubError(pure.input)]
  /\ UNCHANGED <<NODE_ENV, upstream, configs, fetch, settleOrder, results, api, hook, sse, page>>

NextClassify == Classify

SpecClassify == InitClassify /\ [][NextClassify]_vars

\* C11: classifyGitHubError applied to an already classified error returns
\* that error unchanged (same code, status, retryable flag and message)
C11_ClassifyIdempotent ==
  (pure.phase = "classifyGitHubError" /\ isEnhanced(pure.input) /\ pure.output # NoError) =>
     /\ pure.output.code = pure.input.code
     /\ pure.output.status = pure.input.status
     /\ pure.output.retryable = pure.input.retryable
     /\ pure.output.message = pure.input.message

\* C20 as stated: every classified error with code NOT_FOUND has
\* retryable = false
C20_NotFoundNeverRetryable ==
  \A i \in Indices :
    /\ hasCode(fetch[i].fetched, "NOT_FOUND") => ~fetch[i].fetched.retryable
    /\ \A s \in Scopes :
         hasCode(fetch[i].scopeResult[s], "NOT_FOUND") => ~fetch[i].scopeResult[s].retryable

\* C20: the NOT_FOUND error that fetchProject raises has retryable = false;
\* the NOT_FOUND error that classifyGitHubError gives a single scope query
\* has retryable = true, so that the other scope is still tried
C20_NotFoundFinalOnly ==
  \A i \in Indices :
    /\ hasCode(fetch[i].fetched, "NOT_FOUND") =>
         /\ ~fetch[i].fetched.retryable
         /\ fetch[i].fetched = NotFoundError(configs[i])
    /\ \A s \in Scopes :
         hasCode(fetch[i].scopeResult[s], "NOT_FOUND") =>
           /\ fetch[i].scopeResult[s].retryable
           /\ s = 1 => fetch[i].calls[2] > 0 \/ fetch[i].pc # "settled"

C20_Witness ==
  /\ hasCode(fetch[1].scopeResult[1], "NOT_FOUND")
  /\ fetch[1].scopeResult[1].retryable
  /\ isProject(fetch[1].scopeResult[2])
  /\ fetch[1].pc = "settled"


(***************************************************************************)
(* src/lib/data-transform.ts: the item filter as a function                *)
(***************************************************************************)
\* longest projectFields list and longest item list of the inputs
MaxFields == 2
MaxItems == 2

\* the JavaScript null
Null == "<null>"

\* sequences over S of length at most n
SeqUpTo(S, n) == UNION { [1..k -> S] : k \in 0..n }

Range(seq) == { seq[k] : k \in DOMAIN seq }

\* a value that is neither null nor the empty string
truthy(v) == v # Null /\ v # ""

\* the field names filterItemsByTodoColumns treats as the status field
statusFieldNames == {"Status", "Column", "State", "Phase", "Stage"}

\* projectFields entries of the inputs: a status field inside and outside
\* the TODO columns, a second status-like field, and a field of another name
ProjectFields ==
  { [name |-> "Status", value |-> "TODO"], [name |-> "Status", value |-> "Done"],
    [name |-> "Phase", value |-> "TODO"], [name |-> "Priority", value |-> "TODO"] }

\* normalized items, as far as the filter reads them
ProjectItems == { [projectFields |-> fs] : fs \in SeqUpTo(ProjectFields, MaxFields) }

TodoColumnLists == { <<>>, <<"TODO">>, <<"TODO", "Backlog">>, <<"Done">> }

\* the predicate of items.filter (lines 72-84)
matchesTodoColumns(item, todoColumns) ==
  \E k \in DOMAIN item.projectFields :
    LET field == item.projectFields[k]
    IN  /\ field.name \in statusFieldNames
        /\ truthy(field.value)
        /\ field.value \in Range(todoColumns)

\* variant: an empty todoColumns list filters like any other list
filterItemsByTodoColumns_alwaysFilter(items, todoColumns) ==
  SelectSeq(items, LAMBDA item : matchesTodoColumns(item, todoColumns))

filterItemsByTodoColumns(items, todoColumns) ==
  IF Len(todoColumns) = 0
    THEN items
    ELSE SelectSeq(items, LAMBDA item : matchesTodoColumns(item, todoColumns))

InitFilter ==
  /\ \E is \in SeqUpTo(ProjectItems, MaxItems), cols \in TodoColumnLists :
       pure = [phase |-> "filterItemsByTodoColumns", items |-> is,
               todoColumns |-> cols, done |-> FALSE, output |-> <<>>]
  /\ NODE_ENV = "production"
  /\ upstream = [resolves |-> {}, rejects |-> {}]
  /\ configs = <<>> /\ fetch = <<>> /\ settleOrder = <<>> /\ results = Pending
  /\ api = Idle /\ hook = Idle /\ sse = Idle /\ page = Idle

\* the call filterItemsByTodoColumns(items, todoColumns)
Filter ==
  /\ pure.phase = "filterItemsByTodoColumns"
  /\ ~pure.done
  /\ pure' = [pure EXCEPT !.done = TRUE,
                          !.output = filterItemsByTodoColumns(pure.items, pure.todoColumns)]
  /\ UNCHANGED <<NODE_ENV, upstream, configs, fetch, settleOrder, results, api, hook, sse, page>>

NextFilter == Filter

SpecFilter == InitFilter /\ [][NextFilter]_vars

\* the positions of the fields with a status name
statusPositions(item) ==
  { k \in DOMAIN item.projectFields : item.projectFields[k].name \in statusFieldNames }

hasStatus(item) == statusPositions(item) # {}

\* the value of the first field, in field order, with a status name
statusOf(item) ==
  item.projectFields[CHOOSE k \in statusPositions(item) :
                       \A m \in statusPositions(item) : k <= m].value

\* C12: with non-empty todoColumns, an item whose status (the value of its
\* first status-named field) is not in todoColumns is absent from the
\* filtered list
C12_StatusNotInTodoExcluded ==
  (pure.phase = "filterItemsByTodoColumns" /\ pure.done /\ Len(pure.todoColumns) > 0) =>
    \A k \in DOMAIN pure.items :
      (hasStatus(pure.items[k]) /\ statusOf(pure.items[k]) \notin Range(pure.todoColumns))
        => pure.items[k] \notin Range(pure.output)


(***************************************************************************)
(* src/app/api/projects/route.ts: GET /projects                            *)
(*   api.phase  "request": the handler has not run yet                     *)
(*              "fetching": inside await client.fetchMultipleProjects      *)
(*              "responded": the handler returned api.response             *)
(*   api.GITHUB_TOKEN, api.PROJECTS_CONFIG  the process environment        *)
(*   api.board  the items the upstream holds for every project             *)
(***************************************************************************)
\* GITHUB_TOKEN as validateToken reads it: its prefix and its length; the
\* unset variable and the empty string are both falsy
NoToken == [prefix |-> "", length |-> 0]

\* the shortest token validateToken accepts
MinTokenLength == 40

Tokens ==
  { NoToken,
    [prefix |-> "ghp_", length |-> MinTokenLength],
    [prefix |-> "ghp_", length |-> MinTokenLength - 1],
    [prefix |-> "gho_", length |-> MinTokenLength] }

\* errors without a status property
GitHubApiError(message) == [kind |-> "raw", status |-> 0, message |-> message]
ConfigurationError(message) == [kind |-> "raw", status |-> 0, message |-> message]

\* variant: the length of the token is not checked
validateToken_anyLength(token) ==
  IF token.length = 0
    THEN GitHubApiError("GitHub token is required")
  ELSE IF token.prefix \notin {"ghp_", "github_pat_"}
    THEN GitHubApiError("Invalid GitHub token format. Must be a personal access token.")
  ELSE NoError

\* GitHubClient.validateToken: the error it throws, NoError when it returns
validateToken(token) ==
  IF token.length = 0
    THEN GitHubApiError("GitHub token is required")
  ELSE IF token.prefix \notin {"ghp_", "github_pat_"}
    THEN GitHubApiError("Invalid GitHub token format. Must be a personal access token.")
  ELSE IF token.length < MinTokenLength
    THEN GitHubApiError("GitHub token appears to be too short. Please verify your token.")
  ELSE NoError

\* the descriptors of the configuration, by name
ApiConfigs == <<"Demo", "Project B", "Project C">>

ProjectConfigOf(name) ==
  CASE name = "Demo" ->
         [name |-> "Demo", owner |-> "acme", repo |-> "widgets",
          projectNumber |-> 3, todoColumns |-> <<"TODO", "Backlog">>]
    [] name = "Project B" ->
         [name |-> "Project B", owner |-> "org2", repo |-> "repo2",
          projectNumber |-> 2, todoColumns |-> <<"Backlog">>]
    [] name = "Project C" ->
         [name |-> "Project C", owner |-> "org3", repo |-> "repo3",
          projectNumber |-> 1, todoColumns |-> <<"TODO">>]

\* PROJECTS_CONFIG: unset (and no legacy variables either), not JSON, or a
\* JSON array of valid descriptors with distinct names and repositories
ProjectsConfigs ==
  { [kind |-> "unset", names |-> <<>>], [kind |-> "invalid", names |-> <<>>] }
  \cup { [kind |-> "array", names |-> SubSeq(ApiConfigs, 1, n)] : n \in 0..MaxProjects }

\* getProjectConfigs: the descriptor names it returns, or the error it throws
getProjectConfigs(env) ==
  CASE env.kind = "unset" ->
         [error |-> ConfigurationError("GITHUB_OWNER environment variable is required for legacy mode"),
          configs |-> <<>>]
    [] env.kind = "invalid" ->
         [error |-> ConfigurationError("PROJECTS_CONFIG must be valid JSON"),
          configs |-> <<>>]
    [] env.kind = "array" /\ Len(env.names) = 0 ->
         [error |-> ConfigurationError("PROJECTS_CONFIG cannot be empty"),
          configs |-> <<>>]
    [] OTHER -> [error |-> NoError, configs |-> env.names]

\* upstream items: content (absent for a draft), and field values with the
\* field's name and the text / number / name / date the value carries; a
\* number stands as its decimal numeral
NoContent == [present |-> FALSE, title |-> Null, state |-> Null]
Content(title, state) == [present |-> TRUE, title |-> title, state |-> state]
FieldValue(field, text, number, name, date) ==
  [field |-> field, text |-> text, number |-> number, name |-> name, date |-> date]
SingleSelect(field, name) == FieldValue(field, Null, Null, name, Null)

\* one Status=TODO item and one Status=Done item
DemoBoard ==
  << [id |-> "PVTI_1", type |-> "ISSUE", content |-> Content("Fix login", "OPEN"),
      fieldValues |-> << SingleSelect("Status", "TODO") >>],
     [id |-> "PVTI_2", type |-> "ISSUE", content |-> Content("Ship v1", "CLOSED"),
      fieldValues |-> << SingleSelect("Status", "Done") >>] >>

Boards ==
  { DemoBoard,
    <<>>,
    << [id |-> "PVTI_3", type |-> "DRAFT_ISSUE", content |-> NoContent,
        fieldValues |-> << FieldValue(Null, "note", Null, Null, Null),
                           SingleSelect("Status", "Backlog") >>],
       [id |-> "PVTI_4", type |-> "PULL_REQUEST", content |-> Content("", "MERGED"),
        fieldValues |-> << FieldValue("Estimate", Null, "5", Null, Null) >>] >> }

\* a || b for strings
orElse(a, b) == IF truthy(a) THEN a ELSE b

\* route.ts lines 6-55
route_transformProjectItem(item) ==
  LET projectFields ==
        [k \in DOMAIN item.fieldValues |->
           LET fv == item.fieldValues[k]
           IN  [name  |-> orElse(fv.field, "Unknown"),
                value |-> orElse(fv.text, orElse(fv.number, orElse(fv.name, orElse(fv.date, Null))))]]
  IN  IF ~item.content.present
        THEN [id |-> item.id, projectFields |-> projectFields,
              title |-> "Draft Item", state |-> "OPEN", type |-> "DRAFT_ISSUE"]
        ELSE [id |-> item.id, projectFields |-> projectFields,
              title |-> orElse(item.content.title, "Untitled"),
              state |-> orElse(item.content.state, "OPEN"),
              type  |-> IF item.type = "PULL_REQUEST" THEN "PULL_REQUEST"
                        ELSE IF item.content.state # Null THEN "ISSUE"
                        ELSE "DRAFT_ISSUE"]

\* the projectV2 object a scope returned for descriptor number `project`
ProjectV2(project, board) == [project |-> project, items |-> [nodes |-> board]]

\* route.ts lines 59-85
route_transformProject(project, config) ==
  [number |-> project.project,
   items |-> [k \in DOMAIN project.items.nodes |->
                route_transformProjectItem(project.items.nodes[k])],
   projectName |-> config.name,
   projectConfig |-> config]

\* NextResponse.json({ error: message }, { status })
errorResponse(message, status) ==
  [status |-> status, keys |-> {"error"}, error |-> message,
   projects |-> <<>>, errors |-> <<>>]

\* the catch block of GET (lines 163-171)
GET_catch(error) == errorResponse(messageOr(error, "Unknown error"), statusOr500(error))

\* variant: every project is paired with the first descriptor's configuration
GET_response_firstConfig(outcomes, board) ==
  LET succeeded == SelectSeq(outcomes, LAMBDA result : result.success)
      failed    == SelectSeq(outcomes, LAMBDA result : ~result.success)
  IN  [status |-> 200, keys |-> {"projects", "lastFetched", "errors"}, error |-> Null,
       projects |-> [k \in DOMAIN succeeded |->
                       route_transformProject(
                         ProjectV2(succeeded[k].data.project, board),
                         ProjectConfigOf(outcomes[1].projectName))],
       errors |-> [k \in DOMAIN failed |->
                     [projectName |-> failed[k].projectName,
                      error |-> failed[k].error.message]]]

\* lines 124-161: the body built from the outcomes of fetchMultipleProjects
GET_response(outcomes, board) ==
  LET succeeded == SelectSeq(outcomes, LAMBDA result : result.success)
      failed    == SelectSeq(outcomes, LAMBDA result : ~result.success)
  IN  [status |-> 200, keys |-> {"projects", "lastFetched", "errors"}, error |-> Null,
       projects |-> [k \in DOMAIN succeeded |->
                       route_transformProject(
                         ProjectV2(succeeded[k].data.project, board),
                         ProjectConfigOf(succeeded[k].projectName))],
       errors |-> [k \in DOMAIN failed |->
                     [projectName |-> failed[k].projectName,
                      error |-> failed[k].error.message]]]

NoResponseYet == errorResponse(Null, 0)

InitApi ==
  /\ api \in { [phase |-> "request", GITHUB_TOKEN |-> token, PROJECTS_CONFIG |-> env,
                board |-> board, caught |-> NoError, response |-> NoResponseYet] :
                 token \in Tokens, env \in ProjectsConfigs, board \in Boards }
  /\ NODE_ENV = "production"
  /\ upstream = [resolves |-> {"project", "empty"}, rejects |-> {Unauthorized401}]
  /\ configs = <<>> /\ fetch = <<>> /\ settleOrder = <<>> /\ results = Pending
  /\ pure = Idle /\ hook = Idle /\ sse = Idle /\ page = Idle

\* the handler returns `response`
Respond(response, caught) ==
  /\ api' = [api EXCEPT !.phase = "responded", !.response = response, !.caught = caught]
  /\ UNCHANGED <<NODE_ENV, upstream, configs, fetch, settleOrder, results, pure, hook, sse, page>>

\* GET up to its await (lines 89-122)
ApiRequest ==
  /\ api.phase = "request"
  /\ LET resolved == getProjectConfigs(api.PROJECTS_CONFIG)
         token == api.GITHUB_TOKEN
     IN  IF resolved.error # NoError
           THEN Respond(GET_catch(resolved.error), resolved.error)
         ELSE IF token.length = 0
           THEN Respond(errorResponse("Missing GITHUB_TOKEN environment variable", 500), NoError)
         ELSE IF Len(resolved.configs) = 0
           THEN Respond(errorResponse("No project configurations found", 500), NoError)
         ELSE IF validateToken(token) # NoError
           THEN Respond(GET_catch(validateToken(token)), validateToken(token))
         ELSE /\ api' = [api EXCEPT !.phase = "fetching"]
              /\ configs' = resolved.configs
              /\ fetch' = [i \in 1..Len(resolved.configs) |-> NewFetch]
              /\ UNCHANGED <<NODE_ENV, upstream, settleOrder, results, pure, hook, sse, page>>

\* fetchMultipleProjects fulfilled; GET builds and returns the body
ApiRespond ==
  /\ api.phase = "fetching"
  /\ results.status = "fulfilled"
  /\ Respond(GET_response(results.value, api.board), NoError)

NextApi ==
  \/ ApiRequest
  \/ \E i \in Indices : QueryResolves(i)
  \/ \E i \in Indices : QueryRejects(i)
  \/ (api.phase = "fetching" /\ AllSettled)
  \/ ApiRespond

SpecApi == InitApi /\ [][NextApi]_vars

responded == api.phase = "responded"

\* the k-th project of the response body
delivered(k) == api.response.projects[k]

\* C13: every project in the body of GET /projects holds only items whose
\* status is in the todoColumns of its descriptor
C13_DeliveredOnlyTodoItems ==
  (responded /\ api.response.status = 200) =>
    \A k \in DOMAIN api.response.projects :
      \A m \in DOMAIN delivered(k).items :
        LET item == delivered(k).items[m]
        IN  /\ hasStatus(item)
            /\ statusOf(item) \in Range(delivered(k).projectConfig.todoColumns)


\* the environment of the request, in the words of the claims
noToken == api.GITHUB_TOKEN.length = 0
noDescriptors == api.PROJECTS_CONFIG.kind # "array" \/ Len(api.PROJECTS_CONFIG.names) = 0
tokenWellFormed ==
  /\ api.GITHUB_TOKEN.prefix \in {"ghp_", "github_pat_"}
  /\ api.GITHUB_TOKEN.length >= MinTokenLength

isErrorBody == api.response.keys = {"error"} /\ api.response.error # Null

\* every descriptor whose fetch failed is named in errors[]
failuresListed ==
  \A i \in Indices :
    fetch[i].fetched.kind # "data" =>
      \E k \in DOMAIN api.response.errors : api.response.errors[k].projectName = configs[i]

\* C15 as stated: 500 with an {error} body when no token is configured or no
\* descriptor resolves, and 200 with the failures in errors[] in every other
\* case
C15_Status500OnlyWithoutTokenOrConfig ==
  responded =>
    IF noToken \/ noDescriptors
      THEN api.response.status = 500 /\ isErrorBody
      ELSE api.response.status = 200 /\ failuresListed

\* C15, amended: 500 with an {error} body when no descriptor resolves, no
\* token is configured or the token fails validateToken; 200 with the
\* failures in errors[] in every other case
C15_Status500WithoutUsableTokenOrConfig ==
  responded =>
    IF noToken \/ noDescriptors \/ ~tokenWellFormed
      THEN api.response.status = 500 /\ isErrorBody
      ELSE api.response.status = 200 /\ failuresListed

\* one project delivered and one project failed in the same 200 response
C15_Witness ==
  /\ responded
  /\ api.response.status = 200
  /\ Len(api.response.projects) >= 1
  /\ Len(api.response.errors) >= 1

\* C16: an error response carries {error, code, retryable}, and its text is
\* not the message of the error the handler caught
C16_StructuredErrorBody ==
  (responded /\ api.response.status >= 400) =>
    /\ api.response.keys = {"error", "code", "retryable"}
    /\ api.caught # NoError => api.response.error # api.caught.message


(***************************************************************************)
(* lib/events (the connection registry), GET /events and POST /webhook     *)
(*   sse.connections  the Set `connections`, in insertion order            *)
(*   sse.controllers  per /events request: opened (start() has run),       *)
(*                    closed (the stream is closed or cancelled, enqueue   *)
(*                    throws), heartbeat (the interval timer is running),  *)
(*                    aborted (the abort listener has run)                 *)
(*   sse.last         the latest step: the sinks registered before it, the *)
(*                    sinks enqueue was called on, those on which it threw *)
(*   hook             the process's WEBHOOK_SECRET, the latest POST and    *)
(*                    its response                                         *)
(***************************************************************************)
\* most /events requests of a run
MaxConnections == 2

Controllers == 1..MaxConnections

NewController == [opened |-> FALSE, closed |-> FALSE, heartbeat |-> FALSE, aborted |-> FALSE]

Step(op, before, attempts, threw) ==
  [op |-> op, before |-> before, attempts |-> attempts, threw |-> threw,
   thrown |-> NoError]

\* connections.delete(controller)
removeConnection(connections, controller) ==
  SelectSeq(connections, LAMBDA c : c # controller)

\* connections.add(controller)
addConnection(connections, controller) ==
  IF controller \in Range(connections) THEN connections ELSE Append(connections, controller)

\* the body of the forEach callback of broadcastUpdate for one controller:
\* enqueue, and delete the controller when enqueue throws
enqueueOrDelete(acc, controller, closed) ==
  IF closed[controller]
    THEN [acc EXCEPT !.attempts = Append(@, controller),
                     !.threw = @ \cup {controller},
                     !.connections = removeConnection(@, controller)]
    ELSE [acc EXCEPT !.attempts = Append(@, controller)]

\* connections.forEach over the entries present when the iteration starts; an
\* entry deleted by its own callback does not disturb the iteration
RECURSIVE forEachConnection(_, _, _, _)
forEachConnection(order, k, acc, closed) ==
  IF k > Len(order)
    THEN acc
    ELSE forEachConnection(order, k + 1, enqueueOrDelete(acc, order[k], closed), closed)

\* variant: a controller whose enqueue threw stays registered
broadcastUpdate_keepDead(connections, closed) ==
  [forEachConnection(connections, 1,
     [connections |-> connections, attempts |-> <<>>, threw |-> {}, thrown |-> NoError],
     closed) EXCEPT !.connections = connections]

\* broadcastUpdate(data): the registry afterwards, the controllers written
\* to, those whose enqueue threw, and the error that escaped (none)
broadcastUpdate(connections, closed) ==
  forEachConnection(connections, 1,
    [connections |-> connections, attempts |-> <<>>, threw |-> {}, thrown |-> NoError],
    closed)

\* the sse state after broadcastUpdate
broadcast(s) ==
  LET closed == [c \in Controllers |-> s.controllers[c].closed]
      done == broadcastUpdate(s.connections, closed)
  IN  [s EXCEPT !.connections = done.connections,
                !.last = [op |-> "broadcast", before |-> s.connections,
                          attempts |-> done.attempts, threw |-> done.threw,
                          thrown |-> done.thrown]]

\* variant: the abort listener only removes the connection
onAbort_timerKept(s, c) ==
  [s EXCEPT !.controllers[c].aborted = TRUE,
            !.connections = removeConnection(@, c),
            !.last = Step("abort", s.connections, <<>>, {})]

\* the abort listener of GET /events: clearInterval, removeConnection
onAbort(s, c) ==
  [s EXCEPT !.controllers[c].aborted = TRUE,
            !.controllers[c].heartbeat = FALSE,
            !.connections = removeConnection(@, c),
            !.last = Step("abort", s.connections, <<>>, {})]

\* the interval callback of GET /events
onHeartbeat(s, c) ==
  IF s.controllers[c].closed
    THEN [s EXCEPT !.controllers[c].heartbeat = FALSE,
                   !.connections = removeConnection(@, c),
                   !.last = Step("heartbeat", s.connections, <<c>>, {c})]
    ELSE [s EXCEPT !.last = Step("heartbeat", s.connections, <<c>>, {})]

\* start(controller) of GET /events
onStart(s, c) ==
  [s EXCEPT !.controllers[c] = [NewController EXCEPT !.opened = TRUE, !.heartbeat = TRUE],
            !.connections = addConnection(@, c),
            !.last = Step("connect", s.connections, <<c>>, {})]

(***************************************************************************)
(* POST /webhook                                                           *)
(***************************************************************************)
WebhookSecrets == {"", "s3cret"}

\* request bodies: a Status edit of a project item, an edit of another
\* field, and text that is not JSON
StatusEdit == [json |-> TRUE, action |-> "edited", field_name |-> "Status"]
OtherEdit == [json |-> TRUE, action |-> "edited", field_name |-> "Priority"]
NotJson == [json |-> FALSE, action |-> Null, field_name |-> Null]
Bodies == {StatusEdit, OtherEdit, NotJson}

\* the x-github-event header
Events == {"projects_v2_item", "issues"}

\* 'sha256=' + HMAC-SHA256(secret, body).digest('hex'): distinct (secret,
\* body) pairs give distinct digests
hmacSignature(secret, body) == [kind |-> "sha256", secret |-> secret, body |-> body]

\* the x-hub-signature-256 header: absent, or a digest
NoSignature == [kind |-> "absent", secret |-> "", body |-> NotJson]
Signatures ==
  {NoSignature} \cup { hmacSignature(k, b) : k \in {"s3cret", "guess"}, b \in Bodies }

Requests ==
  { [signature |-> sig, event |-> e, body |-> b] :
      sig \in Signatures, e \in Events, b \in Bodies }

NoRequest == [signature |-> NoSignature, event |-> "", body |-> NotJson]

jsonResponse(status, key) == [status |-> status, keys |-> {key}]

\* POST: the response, and whether broadcastUpdate was called
POST(secret, request) ==
  LET signature == request.signature
      present == signature.kind # "absent"
  IN  IF truthy(secret) /\ present /\ signature # hmacSignature(secret, request.body)
        THEN [response |-> jsonResponse(401, "error"), broadcast |-> FALSE]
      ELSE IF ~request.body.json
        THEN [response |-> jsonResponse(500, "error"), broadcast |-> FALSE]
      ELSE IF request.event = "projects_v2_item"
        THEN [response |-> jsonResponse(200, "received"),
              broadcast |-> request.body.action = "edited"
                            /\ request.body.field_name = "Status"]
      ELSE IF request.event \in {"issues", "pull_request"}
        THEN [response |-> jsonResponse(200, "received"), broadcast |-> TRUE]
      ELSE [response |-> jsonResponse(200, "received"), broadcast |-> FALSE]

InitEvents ==
  /\ sse = [connections |-> <<>>,
            controllers |-> [c \in Controllers |-> NewController],
            last |-> Step("none", <<>>, <<>>, {})]
  /\ hook \in { [WEBHOOK_SECRET |-> k, request |-> NoRequest,
                 response |-> jsonResponse(0, ""), broadcast |-> FALSE] :
                  k \in WebhookSecrets }
  /\ NODE_ENV = "production"
  /\ upstream = [resolves |-> {}, rejects |-> {}]
  /\ configs = <<>> /\ fetch = <<>> /\ settleOrder = <<>> /\ results = Pending
  /\ pure = Idle /\ api = Idle /\ page = Idle

sseOnly == <<NODE_ENV, upstream, configs, fetch, settleOrder, results, pure, api, hook, page>>

\* a client opens GET /events
Connect(c) ==
  /\ ~sse.controllers[c].opened
  /\ \A b \in Controllers : b < c => sse.controllers[b].opened
  /\ sse' = onStart(sse, c)
  /\ UNCHANGED sseOnly

\* the 30 second interval of connection c fires
Heartbeat(c) ==
  /\ sse.controllers[c].heartbeat
  /\ sse' = onHeartbeat(sse, c)
  /\ UNCHANGED sseOnly

\* the stream of connection c is closed or cancelled
SinkCloses(c) ==
  /\ sse.controllers[c].opened
  /\ ~sse.controllers[c].closed
  /\ sse' = [sse EXCEPT !.controllers[c].closed = TRUE,
                        !.last = Step("close", sse.connections, <<>>, {})]
  /\ UNCHANGED sseOnly

\* request.signal of connection c fires 'abort'
Abort(c) ==
  /\ sse.controllers[c].opened
  /\ ~sse.controllers[c].aborted
  /\ sse' = onAbort(sse, c)
  /\ UNCHANGED sseOnly

\* a POST /webhook request is handled
WebhookPost(request) ==
  LET handled == POST(hook.WEBHOOK_SECRET, request)
  IN  /\ hook' = [hook EXCEPT !.request = request, !.response = handled.response,
                              !.broadcast = handled.broadcast]
      /\ sse' = IF handled.broadcast
                  THEN broadcast(sse)
                  ELSE [sse EXCEPT !.last = Step("post", sse.connections, <<>>, {})]
      /\ UNCHANGED <<NODE_ENV, upstream, configs, fetch, settleOrder, results, pure, api, page>>

NextEvents ==
  \/ \E c \in Controllers : Connect(c)
  \/ \E c \in Controllers : Heartbeat(c)
  \/ \E c \in Controllers : SinkCloses(c)
  \/ \E c \in Controllers : Abort(c)
  \/ \E request \in Requests : WebhookPost(request)

SpecEvents == InitEvents /\ [][NextEvents]_vars


\* a POST has been handled by a process with a webhook secret
handledWithSecret == hook.request # NoRequest /\ truthy(hook.WEBHOOK_SECRET)

validlySigned == hook.request.signature = hmacSignature(hook.WEBHOOK_SECRET, hook.request.body)

\* C14: with a secret configured, a request signed with the HMAC-SHA256 of
\* its raw body is answered 200, and every other request is answered 401
C14_SignatureDecidesStatus ==
  handledWithSecret =>
    IF validlySigned THEN hook.response.status = 200 ELSE hook.response.status = 401

written(c) == { k \in DOMAIN sse.last.attempts : sse.last.attempts[k] = c }

\* C17: broadcastUpdate calls enqueue exactly once on every sink registered
\* when it starts and on no other, lets no error escape, and leaves the
\* registry equal to the registry before minus the sinks whose enqueue threw
C17_BroadcastWritesOnceAndPrunes ==
  sse.last.op = "broadcast" =>
    /\ \A c \in Range(sse.last.before) : Cardinality(written(c)) = 1
    /\ Range(sse.last.attempts) \subseteq Range(sse.last.before)
    /\ sse.last.thrown = NoError
    /\ sse.last.threw = { c \in Range(sse.last.before) : sse.controllers[c].closed }
    /\ Range(sse.connections) = Range(sse.last.before) \ sse.last.threw

\* a broadcast reached a live sink and pruned a dead one
C17_Witness ==
  /\ sse.last.op = "broadcast"
  /\ sse.last.threw # {}
  /\ Range(sse.connections) # {}

\* C18: once the abort listener of a connection has run, its sink is not
\* registered, its heartbeat timer is stopped, and no broadcast or heartbeat
\* writes to it
C18_AbortStopsWrites ==
  \A c \in Controllers :
    sse.controllers[c].aborted =>
      /\ c \notin Range(sse.connections)
      /\ ~sse.controllers[c].heartbeat
      /\ sse.last.op \in {"broadcast", "heartbeat"} => c \notin Range(sse.last.attempts)

\* a broadcast that wrote to a sink while another connection was aborted
C18_Witness ==
  /\ \E c \in Controllers : sse.controllers[c].aborted
  /\ sse.last.op = "broadcast"
  /\ sse.last.attempts # <<>>


(***************************************************************************)
(* Time spent inside one upstream call.  graphqlWithRetry awaits           *)
(* this.graphqlWithAuth(query, variables) with no timer and no abort       *)
(* signal; fetchWithTimeout is not on that path.                           *)
(*   pure.clock[i]  the call of coroutine i the clock last looked at       *)
(*                  (its scope and attempt) and the time it has been       *)
(*                  outstanding                                            *)
(***************************************************************************)
\* the default timeout of fetchWithTimeout, in ms
timeout == 30000

\* the clock advances in steps of TickMs and is followed up to MaxElapsed
TickMs == 15000
MaxElapsed == 45000

currentCall(i) == <<fetch[i].scope, fetch[i].attempt>>

InitTimeout ==
  /\ NODE_ENV \in {"test", "production"}
  /\ upstream = [resolves |-> ResolutionKinds, rejects |-> Rejections]
  /\ configs = SubSeq(AllConfigs, 1, 1)
  /\ fetch = [i \in 1..Len(configs) |-> NewFetch]
  /\ settleOrder = <<>>
  /\ results = Pending
  /\ pure = [phase |-> "clock",
             clock |-> [i \in 1..Len(configs) |-> [call |-> <<1, 0>>, elapsed |-> 0]]]
  /\ api = Idle /\ hook = Idle /\ sse = Idle /\ page = Idle

\* TickMs pass while the upstream call of coroutine i is outstanding: nothing
\* in graphqlWithRetry or retryOperation runs, the await stays pending
CallStaysPending(i) ==
  /\ fetch[i].pc = "call"
  /\ LET elapsed == IF pure.clock[i].call = currentCall(i) THEN pure.clock[i].elapsed ELSE 0
     IN  /\ elapsed < MaxElapsed
         /\ pure' = [pure EXCEPT !.clock[i] = [call |-> currentCall(i),
                                               elapsed |-> elapsed + TickMs]]
  /\ UNCHANGED <<NODE_ENV, upstream, configs, fetch, settleOrder, results, api, hook, sse, page>>

NextTimeout ==
  \/ Next
  \/ \E i \in Indices : CallStaysPending(i)

SpecTimeout == InitTimeout /\ [][NextTimeout]_vars

\* C19: no upstream call is still outstanding after the 30 second timeout
C19_CallSettlesWithinTimeout ==
  \A i \in Indices :
    (fetch[i].pc = "call" /\ pure.clock[i].call = currentCall(i))
      => pure.clock[i].elapsed <= timeout


(***************************************************************************)
(* src/lib/error-handling.ts: createErrorResponse as a function            *)
(***************************************************************************)
\* ERROR_MESSAGES[code]
ERROR_MESSAGES(code) ==
  CASE code = "RATE_LIMIT" -> "GitHub API rate limit exceeded. The dashboard will resume updating automatically."
    [] code = "AUTH_ERROR" -> "Authentication failed. Please check your GitHub token configuration."
    [] code = "NOT_FOUND" -> "Project not found. Please verify the project number and access permissions."
    [] code = "NETWORK_ERROR" -> "Network connection failed. Retrying automatically..."
    [] code = "TIMEOUT" -> "Request timed out. This might be due to a slow network connection."
    [] code = "WEBHOOK_ERROR" -> "Webhook processing failed. The system will retry automatically."
    [] code = "GENERIC_ERROR" -> "An unexpected error occurred. Please try again later."
    [] code = "PROJECT_ACCESS_DENIED" -> "Access denied to project. Please check permissions."
    [] OTHER -> "An unexpected error occurred. Please try again later."

getUserMessage(e) == ERROR_MESSAGES(e.code)

\* lines 196-209: the EnhancedError the response is built from
toEnhancedError(error, context) ==
  IF isEnhanced(error)
    THEN error
    ELSE EnhancedError(messageOr(error, "Unknown error"), "GENERIC_ERROR",
                       statusOr500(error), TRUE, context)

\* createErrorResponse(error, context): the error it classified and the
\* response it returns
createErrorResponse(error, context) ==
  LET enhancedError == toEnhancedError(error, context)
  IN  [enhancedError |-> enhancedError,
       status |-> enhancedError.status,
       keys |-> {"error", "code", "retryable", "timestamp"},
       error |-> getUserMessage(enhancedError),
       code |-> enhancedError.code,
       retryable |-> enhancedError.retryable]

InitErrorResponse ==
  /\ pure \in { [phase |-> "createErrorResponse", input |-> e, context |-> c,
                 done |-> FALSE, output |-> createErrorResponse(NoError, NoContext)] :
                  e \in RawErrors \cup ConstructedErrors, c \in ErrorContexts }
  /\ NODE_ENV = "production"
  /\ upstream = [resolves |-> {}, rejects |-> {}]
  /\ configs = <<>> /\ fetch = <<>> /\ settleOrder = <<>> /\ results = Pending
  /\ api = Idle /\ hook = Idle /\ sse = Idle /\ page = Idle

\* the call createErrorResponse(error, context)
CreateErrorResponse ==
  /\ pure.phase = "createErrorResponse"
  /\ ~pure.done
  /\ pure' = [pure EXCEPT !.done = TRUE,
                          !.output = createErrorResponse(pure.input, pure.context)]
  /\ UNCHANGED <<NODE_ENV, upstream, configs, fetch, settleOrder, results, api, hook, sse, page>>

NextErrorResponse == CreateErrorResponse

SpecErrorResponse == InitErrorResponse /\ [][NextErrorResponse]_vars

\* C21: a GENERIC_ERROR built by createErrorResponse is retryable only if its
\* status is at least 500
C21_GenericRetryableOnlyFrom500 ==
  (pure.phase = "createErrorResponse" /\ pure.done
     /\ pure.output.enhancedError.code = "GENERIC_ERROR"
     /\ pure.output.enhancedError.retryable)
    => pure.output.enhancedError.status >= 500


(***************************************************************************)
(* lib/config: getProjectConfigs on a PROJECTS_CONFIG value.  A string is  *)
(* the sequence of its characters, so that trim and toLowerCase are        *)
(* computed.                                                               *)
(***************************************************************************)
\* longest descriptor array in PROJECTS_CONFIG
MaxDescriptors == 2

\* validateConfigurationLimits: maxProjects and maxTodoColumns
maxProjects == 10
maxTodoColumns == 5

\* String.prototype.trim
RECURSIVE trimStart(_)
trimStart(str) ==
  IF Len(str) > 0 /\ Head(str) = " " THEN trimStart(Tail(str)) ELSE str

RECURSIVE trimEnd(_)
trimEnd(str) ==
  IF Len(str) > 0 /\ str[Len(str)] = " " THEN trimEnd(SubSeq(str, 1, Len(str) - 1)) ELSE str

trim(str) == trimEnd(trimStart(str))

\* String.prototype.toLowerCase on the letters of the alphabet
lowerChar(ch) ==
  CASE ch = "A" -> "a"
    [] ch = "B" -> "b"
    [] OTHER -> ch

toLowerCase(str) == [k \in DOMAIN str |-> lowerChar(str[k])]

\* the values of the descriptor fields in the configurations examined
ConfigNames == { <<"A">>, <<"a">>, <<" ", "A", " ">>, <<"B">>, <<" ">> }
ConfigOwners == { <<"o">>, <<"o", " ">> }
ConfigRepos == { <<"r">>, <<"s">> }
ConfigTodoColumns == { << <<" ", "T", " ">> >>, <<>> }

RawConfigs ==
  { [name |-> n, owner |-> o, repo |-> r, projectNumber |-> 1, todoColumns |-> t] :
      n \in ConfigNames, o \in ConfigOwners, r \in ConfigRepos, t \in ConfigTodoColumns }

\* PROJECTS_CONFIG: text that is not JSON, or a JSON array of descriptors
ConfigTexts ==
  { [kind |-> "invalid", elements |-> <<>>] }
  \cup { [kind |-> "array", elements |-> es] : es \in SeqUpTo(RawConfigs, MaxDescriptors) }

\* a ConfigurationError about descriptor number `index` (0 when about none)
ConfigError(index, message) ==
  [kind |-> "ConfigurationError", index |-> index, message |-> message]

\* validateProjectConfig: the error it throws, NoError when it returns
validateProjectConfig_error(config, index) ==
  IF trim(config.name) = <<>>
    THEN ConfigError(index + 1, "name must be a non-empty string")
  ELSE IF trim(config.owner) = <<>>
    THEN ConfigError(index + 1, "owner must be a non-empty string")
  ELSE IF trim(config.repo) = <<>>
    THEN ConfigError(index + 1, "repo must be a non-empty string")
  ELSE IF config.projectNumber <= 0
    THEN ConfigError(index + 1, "projectNumber must be a positive number")
  ELSE IF Len(config.todoColumns) = 0
    THEN ConfigError(index + 1, "todoColumns cannot be empty")
  ELSE IF \E i \in DOMAIN config.todoColumns : trim(config.todoColumns[i]) = <<>>
    THEN ConfigError(index + 1, "todoColumns[i] must be a non-empty string")
  ELSE NoError

\* variant: the descriptor is returned as it was written
validateProjectConfig_untrimmed(config, index) ==
  config

\* validateProjectConfig: the descriptor it returns (lines 511-517)
validateProjectConfig(config, index) ==
  [name |-> trim(config.name),
   owner |-> trim(config.owner),
   repo |-> trim(config.repo),
   projectNumber |-> config.projectNumber,
   todoColumns |-> [i \in DOMAIN config.todoColumns |-> trim(config.todoColumns[i])]]

\* array.indexOf(value) # index for some index: a value occurs twice
hasDuplicates(array) ==
  \E i, j \in DOMAIN array : i < j /\ array[i] = array[j]

\* variant: names are compared as written
validateConfigurationLimits_caseSensitive(cfgs) ==
  IF Len(cfgs) > maxProjects
    THEN ConfigError(0, "Too many projects configured")
  ELSE IF hasDuplicates([k \in DOMAIN cfgs |-> cfgs[k].name])
    THEN ConfigError(0, "Duplicate project names found")
  ELSE IF hasDuplicates([k \in DOMAIN cfgs |-> <<cfgs[k].owner, cfgs[k].repo>>])
    THEN ConfigError(0, "Duplicate owner/repo combinations found")
  ELSE IF \E k \in DOMAIN cfgs : Len(cfgs[k].todoColumns) > maxTodoColumns
    THEN ConfigError(0, "too many TODO columns")
  ELSE NoError

\* validateConfigurationLimits: the error it throws, NoError when it returns
validateConfigurationLimits(cfgs) ==
  IF Len(cfgs) > maxProjects
    THEN ConfigError(0, "Too many projects configured")
  ELSE IF hasDuplicates([k \in DOMAIN cfgs |-> toLowerCase(cfgs[k].name)])
    THEN ConfigError(0, "Duplicate project names found")
  ELSE IF hasDuplicates([k \in DOMAIN cfgs |-> <<cfgs[k].owner, cfgs[k].repo>>])
    THEN ConfigError(0, "Duplicate owner/repo combinations found")
  ELSE IF \E k \in DOMAIN cfgs : Len(cfgs[k].todoColumns) > maxTodoColumns
    THEN ConfigError(0, "too many TODO columns")
  ELSE NoError

\* parseMultiProjectConfig: the descriptors, or the first error thrown
parseMultiProjectConfig(text) ==
  IF text.kind # "array"
    THEN [error |-> ConfigError(0, "PROJECTS_CONFIG must be valid JSON"), configs |-> <<>>]
  ELSE IF Len(text.elements) = 0
    THEN [error |-> ConfigError(0, "PROJECTS_CONFIG cannot be empty"), configs |-> <<>>]
  ELSE LET invalid == { k \in DOMAIN text.elements :
                          validateProjectConfig_error(text.elements[k], k - 1) # NoError }
       IN  IF invalid # {}
             THEN LET first == CHOOSE k \in invalid : \A m \in invalid : k <= m
                  IN  [error |-> validateProjectConfig_error(text.elements[first], first - 1),
                       configs |-> <<>>]
             ELSE [error |-> NoError,
                   configs |-> [k \in DOMAIN text.elements |->
                                  validateProjectConfig(text.elements[k], k - 1)]]

\* getProjectConfigs with PROJECTS_CONFIG = text (lines 577-594)
loadProjectConfigs(text) ==
  LET parsed == parseMultiProjectConfig(text)
  IN  IF parsed.error # NoError
        THEN parsed
      ELSE IF validateConfigurationLimits(parsed.configs) # NoError
        THEN [error |-> validateConfigurationLimits(parsed.configs), configs |-> <<>>]
      ELSE parsed

InitConfig ==
  /\ pure \in { [phase |-> "getProjectConfigs", PROJECTS_CONFIG |-> text, done |-> FALSE,
                 output |-> [error |-> NoError, configs |-> <<>>]] :
                  text \in ConfigTexts }
  /\ NODE_ENV = "production"
  /\ upstream = [resolves |-> {}, rejects |-> {}]
  /\ configs = <<>> /\ fetch = <<>> /\ settleOrder = <<>> /\ results = Pending
  /\ api = Idle /\ hook = Idle /\ sse = Idle /\ page = Idle

\* the call getProjectConfigs()
LoadConfig ==
  /\ pure.phase = "getProjectConfigs"
  /\ ~pure.done
  /\ pure' = [pure EXCEPT !.done = TRUE, !.output = loadProjectConfigs(pure.PROJECTS_CONFIG)]
  /\ UNCHANGED <<NODE_ENV, upstream, configs, fetch, settleOrder, results, api, hook, sse, page>>

NextConfig == LoadConfig

SpecConfig == InitConfig /\ [][NextConfig]_vars

loaded == pure.phase = "getProjectConfigs" /\ pure.done

written_configs == pure.PROJECTS_CONFIG.elements

\* two descriptors as written whose names are equal ignoring case, or whose
\* owner and repo are equal
writtenDuplicate ==
  \E i, j \in DOMAIN written_configs :
    /\ i < j
    /\ \/ toLowerCase(written_configs[i].name) = toLowerCase(written_configs[j].name)
       \/ /\ written_configs[i].owner = written_configs[j].owner
          /\ written_configs[i].repo = written_configs[j].repo

\* C22: a configuration with two names equal ignoring case, or with the same
\* (owner, repo) twice, makes getProjectConfigs throw ConfigurationError and
\* return no descriptors
C22_DuplicatesRejected ==
  (loaded /\ writtenDuplicate) =>
    /\ pure.output.error.kind = "ConfigurationError"
    /\ pure.output.configs = <<>>

\* two valid descriptors named "A" and "a" were rejected as duplicates
C22_Witness ==
  /\ loaded
  /\ writtenDuplicate
  /\ pure.output.error = ConfigError(0, "Duplicate project names found")
  /\ \E i, j \in DOMAIN written_configs :
       written_configs[i].name = <<"A">> /\ written_configs[j].name = <<"a">>

\* C23: when getProjectConfigs returns, it returns one descriptor per array
\* element, in input order, with name, owner, repo and every todoColumns
\* entry trimmed
C23_OnePerElementTrimmed ==
  (loaded /\ pure.output.error = NoError) =>
    /\ Len(pure.output.configs) = Len(written_configs)
    /\ \A k \in DOMAIN written_configs :
         LET in == written_configs[k]
             out == pure.output.configs[k]
         IN  /\ out.name = trim(in.name) /\ out.owner = trim(in.owner)
             /\ out.repo = trim(in.repo)
             /\ out.projectNumber = in.projectNumber
             /\ Len(out.todoColumns) = Len(in.todoColumns)
             /\ \A i \in DOMAIN in.todoColumns : out.todoColumns[i] = trim(in.todoColumns[i])
             /\ Head(out.name) # " " /\ out.name[Len(out.name)] # " "
             /\ Head(out.owner) # " " /\ out.owner[Len(out.owner)] # " "

\* two descriptors written with padding were returned, in order
C23_Witness ==
  /\ loaded
  /\ pure.output.error = NoError
  /\ Len(pure.output.configs) = 2
  /\ written_configs[1].name = <<" ", "A", " ">>
  /\ written_configs[2].owner = <<"o", " ">>
  /\ pure.output.configs[1].name = <<"A">>
  /\ pure.output.configs[2].owner = <<"o">>


\* C24: with an empty todoColumns list the filter returns the items
\* unchanged: the same elements in the same order
C24_EmptyTodoColumnsKeepsAll ==
  (pure.phase = "filterItemsByTodoColumns" /\ pure.done /\ pure.todoColumns = <<>>)
    => pure.output = pure.items

\* two items, one of them with status Done, went through the filter with []
C24_Witness ==
  /\ pure.phase = "filterItemsByTodoColumns" /\ pure.done
  /\ pure.todoColumns = <<>>
  /\ Len(pure.items) = 2
  /\ pure.output = pure.items
  /\ \E k \in DOMAIN pure.items :
       hasStatus(pure.items[k]) /\ statusOf(pure.items[k]) = "Done"


(***************************************************************************)
(* src/lib/data-transform.ts: transformProjectItem as a function           *)
(***************************************************************************)
\* a connection of the response, and a connection that is missing from it
Nodes(nodes) == [present |-> TRUE, nodes |-> nodes]
NoNodes == [present |-> FALSE, nodes |-> <<>>]

\* item.content as the function reads it: absent (null), or an object with a
\* title, a state, an author, a creator and assignees / labels connections,
\* each of which may be missing (Null)
ItemContent(title, state, author, creator, assignees, labels) ==
  [present |-> TRUE, title |-> title, state |-> state, author |-> author,
   creator |-> creator, assignees |-> assignees, labels |-> labels]

NullContent ==
  [present |-> FALSE, title |-> Null, state |-> Null, author |-> Null,
   creator |-> Null, assignees |-> NoNodes, labels |-> NoNodes]

ItemContents ==
  {NullContent}
  \cup { ItemContent(title, state, author, creator, assignees, labels) :
           title \in {"", "Fix login"}, state \in {Null, "OPEN"},
           author \in {Null, "octocat"}, creator \in {Null, "bot"},
           assignees \in {NoNodes, Nodes(<<"octocat">>)},
           labels \in {NoNodes, Nodes(<<"bug">>)} }

\* item.fieldValues: missing, or its nodes
ItemFieldValues ==
  { NoNodes, Nodes(<<>>), Nodes(<< SingleSelect("Status", "TODO") >>),
    Nodes(<< FieldValue(Null, "note", Null, Null, Null), SingleSelect("Status", "Done") >>) }

RawItems ==
  { [id |-> "PVTI_1", type |-> type, content |-> content, fieldValues |-> fvs] :
      type \in {"ISSUE", "PULL_REQUEST", "DRAFT_ISSUE"},
      content \in ItemContents, fvs \in ItemFieldValues }

\* connection?.nodes || []
nodesOrEmpty(connection) == IF connection.present THEN connection.nodes ELSE <<>>

UnknownUser == [login |-> "Unknown", avatarUrl |-> "", url |-> ""]
User(login) == [login |-> login, avatarUrl |-> "", url |-> ""]

\* lines 16-24
baseProjectFields(item) ==
  LET nodes == nodesOrEmpty(item.fieldValues)
  IN  [k \in DOMAIN nodes |->
         [name  |-> orElse(nodes[k].field, "Unknown"),
          value |-> orElse(nodes[k].text, orElse(nodes[k].number,
                      orElse(nodes[k].name, orElse(nodes[k].date, Null))))]]

\* variant: a draft keeps the type the item states
transformProjectItem_typeKept(item) ==
  IF ~item.content.present
    THEN [id |-> item.id, projectFields |-> baseProjectFields(item),
          title |-> "Draft Item", state |-> "OPEN", type |-> item.type,
          assignees |-> <<>>, labels |-> <<>>, author |-> UnknownUser]
    ELSE [id |-> item.id, projectFields |-> baseProjectFields(item),
          title |-> orElse(item.content.title, "Untitled"),
          state |-> orElse(item.content.state, "OPEN"),
          type  |-> IF item.type = "PULL_REQUEST" THEN "PULL_REQUEST"
                    ELSE IF item.content.state # Null THEN "ISSUE"
                    ELSE "DRAFT_ISSUE",
          assignees |-> nodesOrEmpty(item.content.assignees),
          labels |-> nodesOrEmpty(item.content.labels),
          author |-> IF item.content.author # Null THEN User(item.content.author)
                     ELSE IF item.content.creator # Null THEN User(item.content.creator)
                     ELSE UnknownUser]

\* data-transform.ts lines 14-62
transformProjectItem(item) ==
  IF ~item.content.present
    THEN [id |-> item.id, projectFields |-> baseProjectFields(item),
          title |-> "Draft Item", state |-> "OPEN", type |-> "DRAFT_ISSUE",
          assignees |-> <<>>, labels |-> <<>>, author |-> UnknownUser]
    ELSE [id |-> item.id, projectFields |-> baseProjectFields(item),
          title |-> orElse(item.content.title, "Untitled"),
          state |-> orElse(item.content.state, "OPEN"),
          type  |-> IF item.type = "PULL_REQUEST" THEN "PULL_REQUEST"
                    ELSE IF item.content.state # Null THEN "ISSUE"
                    ELSE "DRAFT_ISSUE",
          assignees |-> nodesOrEmpty(item.content.assignees),
          labels |-> nodesOrEmpty(item.content.labels),
          author |-> IF item.content.author # Null THEN User(item.content.author)
                     ELSE IF item.content.creator # Null THEN User(item.content.creator)
                     ELSE UnknownUser]

InitTransform ==
  /\ pure \in { [phase |-> "transformProjectItem", item |-> item, done |-> FALSE,
                 output |-> [id |-> "", projectFields |-> <<>>, title |-> "", state |-> "",
                             type |-> "", assignees |-> <<>>, labels |-> <<>>,
                             author |-> UnknownUser]] :
                  item \in RawItems }
  /\ NODE_ENV = "production"
  /\ upstream = [resolves |-> {}, rejects |-> {}]
  /\ configs = <<>> /\ fetch = <<>> /\ settleOrder = <<>> /\ results = Pending
  /\ api = Idle /\ hook = Idle /\ sse = Idle /\ page = Idle

\* the call transformProjectItem(item)
Transform ==
  /\ pure.phase = "transformProjectItem"
  /\ ~pure.done
  /\ pure' = [pure EXCEPT !.done = TRUE, !.output = transformProjectItem(pure.item)]
  /\ UNCHANGED <<NODE_ENV, upstream, configs, fetch, settleOrder, results, api, hook, sse, page>>

NextTransform == Transform

SpecTransform == InitTransform /\ [][NextTransform]_vars

\* C25: an item whose content is null is normalized to a DRAFT_ISSUE titled
\* "Draft Item" with author login "Unknown" and no assignees or labels,
\* whatever type the item states
C25_NullContentIsDraft ==
  (pure.phase = "transformProjectItem" /\ pure.done /\ ~pure.item.content.present) =>
    /\ pure.output.type = "DRAFT_ISSUE"
    /\ pure.output.title = "Draft Item"
    /\ pure.output.author.login = "Unknown"
    /\ pure.output.assignees = <<>>
    /\ pure.output.labels = <<>>

\* an item stated to be a pull request, with null content, was normalized
C25_Witness ==
  /\ pure.phase = "transformProjectItem" /\ pure.done
  /\ ~pure.item.content.present
  /\ pure.item.type = "PULL_REQUEST"
  /\ pure.output.type = "DRAFT_ISSUE"


\* C26: with a secret configured, POST /webhook calls broadcastUpdate only
\* for a request whose signature header is the HMAC-SHA256 of its raw body
C26_BroadcastOnlyWhenSigned ==
  (handledWithSecret /\ hook.broadcast) => validlySigned

\* C28: a connection whose sink is not in the registry has no running
\* heartbeat timer
C28_RemovedSinkHasNoTimer ==
  \A c \in Controllers :
    (sse.controllers[c].opened /\ c \notin Range(sse.connections))
      => ~sse.controllers[c].heartbeat


\* a scope query that failed with a transient classification: a network
\* failure, or a server error with status at least 500
isTransient(x) ==
  \/ hasCode(x, "NETWORK_ERROR")
  \/ hasCode(x, "GENERIC_ERROR") /\ x.status >= 500

\* C27: fetchProject raises NOT_FOUND only if every scope query ended in 'not
\* found'; when both scope queries failed with a transient error, the error
\* raised keeps the transient code and the retryable flag of the last one
C27_TransientClassificationKept ==
  \A i \in Indices :
    isError(fetch[i].fetched) =>
      /\ hasCode(fetch[i].fetched, "NOT_FOUND")
           => \A s \in Scopes : endedNotFound(fetch[i].scopeResult[s])
      /\ (\A s \in Scopes : isTransient(fetch[i].scopeResult[s]))
           => /\ isTransient(fetch[i].fetched)
              /\ fetch[i].fetched.code = fetch[i].scopeResult[Len(queries)].code
              /\ fetch[i].fetched.retryable = fetch[i].scopeResult[Len(queries)].retryable


\* the entries of the response body that carry the name of descriptor i
projectsNamed(i) ==
  { k \in DOMAIN api.response.projects : api.response.projects[k].projectName = configs[i] }
errorsNamed(i) ==
  { k \in DOMAIN api.response.errors : api.response.errors[k].projectName = configs[i] }

\* C29: in a 200 response projects and errors together have one entry per
\* descriptor, every descriptor's name occurs exactly once among them, and a
\* returned project carries the configuration of the descriptor it was
\* fetched for
C29_OneEntryPerDescriptor ==
  (responded /\ api.response.status = 200) =>
    /\ Len(api.response.projects) + Len(api.response.errors) = Len(configs)
    /\ \A i \in Indices : Cardinality(projectsNamed(i)) + Cardinality(errorsNamed(i)) = 1
    /\ \A k \in DOMAIN api.response.projects :
         LET project == api.response.projects[k]
         IN  /\ project.number \in Indices
             /\ project.projectConfig = ProjectConfigOf(configs[project.number])
             /\ project.projectName = configs[project.number]

\* the first descriptor failed and the second was delivered
C29_Witness ==
  /\ responded
  /\ api.response.status = 200
  /\ Len(configs) = 2
  /\ Len(api.response.errors) = 1
  /\ api.response.errors[1].projectName = "Demo"
  /\ Len(api.response.projects) = 1
  /\ api.response.projects[1].projectName = "Project B"

\* ---------------------------------------------------------------------------
\* The dashboard page (Home): its React state and the fetches it has started
\* ---------------------------------------------------------------------------

\* bound on the number of fetchProjectData calls of one run
MaxFetches == 3

\* what a call of fetch() can come to: a 2xx response, another response, or a
\* rejected promise
FetchOutcomes == {"ok", "not_ok", "rejects"}

\* the message types the /events stream delivers
SseMessageTypes == {"project_item_updated", "connected", "heartbeat"}

\* useState(null): nothing has been delivered yet
NoData == [from |-> 0, endpoint |-> Null]

\* the body of the response that fetch number k got from an endpoint
ResponseData(k, endpoint) == [from |-> k, endpoint |-> endpoint]

\* the page as first rendered, before its effect has run
InitPage ==
  /\ NODE_ENV = "production"
  /\ upstream = [resolves |-> {}, rejects |-> {}]
  /\ configs = <<>> /\ fetch = <<>> /\ settleOrder = <<>> /\ results = Pending
  /\ pure = Idle /\ api = Idle /\ hook = Idle /\ sse = Idle
  /\ page = [ phase          |-> "page",
              mounted        |-> FALSE,
              data           |-> NoData,
              loading        |-> TRUE,
              error          |-> Null,
              isMultiProject |-> FALSE,
              fetches        |-> <<>>,
              received       |-> Null ]

pageOnly == <<NODE_ENV, upstream, configs, fetch, settleOrder, results, pure, api, hook, sse>>

\* the fetches whose fetchProjectData call is suspended at an await
inFlight == { k \in DOMAIN page.fetches : page.fetches[k].pc \in {"projects", "fallback"} }

\* fetchProjectData up to its first await: the request to /api/projects is
\* out; `during` remembers the fetches that were in flight at that moment
fetchProjectData(trigger) ==
  [page EXCEPT !.loading = TRUE,
               !.error   = Null,
               !.fetches = Append(@, [trigger |-> trigger, pc |-> "projects",
                                      during |-> inFlight])]

\* the effect runs: the first fetch, the event source and the polling timer
Mount ==
  /\ page.phase = "page"
  /\ ~page.mounted
  /\ page' = [fetchProjectData("mount") EXCEPT !.mounted = TRUE]
  /\ UNCHANGED pageOnly

\* setInterval(fetchProjectData, 10000) fires
PollTick ==
  /\ page.phase = "page"
  /\ page.mounted
  /\ Len(page.fetches) < MaxFetches
  /\ page' = fetchProjectData("poll")
  /\ UNCHANGED pageOnly

\* eventSource.onmessage
SseMessage ==
  /\ page.phase = "page"
  /\ page.mounted
  /\ \E type \in SseMessageTypes :
       IF type = "project_item_updated"
       THEN /\ Len(page.fetches) < MaxFetches
            /\ page' = [fetchProjectData("sse") EXCEPT !.received = type]
       ELSE page' = [page EXCEPT !.received = type]
  /\ UNCHANGED pageOnly

\* setData with the response of fetch k, and the finally block
setDataOf(k, endpoint) ==
  [page EXCEPT !.data           = ResponseData(k, endpoint),
               !.isMultiProject = (endpoint = "projects"),
               !.loading        = FALSE,
               !.fetches[k].pc  = "data"]

\* the catch block of fetch k, and the finally block
setErrorOf(k) ==
  [page EXCEPT !.error          = "error",
               !.loading        = FALSE,
               !.fetches[k].pc  = "error"]

\* the request of fetch k to /api/projects settles
ProjectsResponds ==
  /\ page.phase = "page"
  /\ \E k \in DOMAIN page.fetches, outcome \in FetchOutcomes :
       /\ page.fetches[k].pc = "projects"
       /\ page' = CASE outcome = "ok"      -> setDataOf(k, "projects")
                    [] outcome = "not_ok"  -> [page EXCEPT !.fetches[k].pc = "fallback"]
                    [] outcome = "rejects" -> setErrorOf(k)
  /\ UNCHANGED pageOnly

\* the request of fetch k to /api/github-project settles
FallbackResponds ==
  /\ page.phase = "page"
  /\ \E k \in DOMAIN page.fetches, outcome \in FetchOutcomes :
       /\ page.fetches[k].pc = "fallback"
       /\ page' = IF outcome = "ok" THEN setDataOf(k, "github-project") ELSE setErrorOf(k)
  /\ UNCHANGED pageOnly

NextPage ==
  \/ Mount
  \/ PollTick
  \/ SseMessage
  \/ ProjectsResponds
  \/ FallbackResponds

SpecPage == InitPage /\ [][NextPage]_vars

\* fetch i was in flight when fetch j was started, one of the two was started
\* by the polling timer and the other by an SSE message
pollAndSseOverlapped(i, j) ==
  /\ i \in page.fetches[j].during
  /\ {page.fetches[i].trigger, page.fetches[j].trigger} = {"poll", "sse"}

\* C30: when a poll-triggered and an SSE-triggered fetch were in flight at the
\* same time and both delivered data, the data shown once nothing is in flight
\* is not the response of the one started first
C30_LastStartedFetchWins ==
  page.phase = "page" =>
    \A i, j \in DOMAIN page.fetches :
      ( /\ inFlight = {}
        /\ pollAndSseOverlapped(i, j)
        /\ page.fetches[i].pc = "data"
        /\ page.fetches[j].pc = "data" ) => page.data.from # i

====
